---- MODULE Spec2Model ----
(***************************************************************************)
(* A model of the ASCII-Bot rendering engine: the hex colour parser, the   *)
(* character-grid dimension calculation, the ANSI escape-code line parser  *)
(* and the conversion request that strings them together.  A string is a   *)
(* sequence of characters; a character is a one-character string, or the   *)
(* code point ("U+00E9") of a character outside ASCII.                     *)
(***************************************************************************)
EXTENDS Integers, Sequences, FiniteSets, TLC

VARIABLES
    hex,            \* parse_hex_color: the argument `hex`
    hex_result,     \* parse_hex_color: what the call produced (None before)
    img_width,      \* the decoded image's width
    img_height,     \* the decoded image's height
    max_width,      \* AsciiRenderer::new: the argument `max_width`
    renderer,       \* the AsciiRenderer that new returned (None before)
    dims,           \* calculate_ascii_dimensions: what the call returned (None before)
    ascii_text,     \* render_to_image: the argument `ascii_text`
    rpc,            \* render_to_image: where the call stands
    image,          \* render_to_image: the buffer's size in pixels (None before)
    line_idx,       \* render_to_image: `line_idx` of the loop over the lines
    drawn,          \* render_to_image: the draw_text_mut calls made so far
    chars,          \* parse_colored_line: what the iterator `chars` has left
    code,           \* parse_colored_line: the last `code` read (None before)
    current_color,  \* parse_colored_line: `current_color`
    result,         \* parse_colored_line: `result`, the cells pushed so far
    cmd,            \* the command that was invoked
    brightness_boost, \* _image_to_ascii: the argument `brightness_boost`
    fpc,            \* the command: the call it is about to make
    calls,          \* the command: the calls that returned without an error
    outcome,        \* the command: what it returned (None before)
    sent            \* the replies ctx.send delivered to the user

hexVars == <<hex, hex_result>>
dimVars == <<img_width, img_height, max_width, renderer, dims>>
renderVars == <<ascii_text, rpc, image, line_idx, drawn>>
lineVars == <<chars, code, current_color, result>>
flowVars == <<cmd, brightness_boost, fpc, calls, outcome, sent>>
vars == <<hexVars, dimVars, renderVars, lineVars, flowVars>>

None == [kind |-> "None"]

\* the parts of the state a specification leaves alone
HexIdle ==
    /\ hex = <<>>
    /\ hex_result = None

DimIdle ==
    /\ img_width = 0
    /\ img_height = 0
    /\ max_width = 0
    /\ renderer = None
    /\ dims = None

LineIdle ==
    /\ chars = <<>>
    /\ code = None
    /\ current_color = <<255, 255, 255, 255>>
    /\ result = <<>>

FlowIdle ==
    /\ cmd = "none"
    /\ brightness_boost = 1
    /\ fpc = "idle"
    /\ calls = <<>>
    /\ outcome = None
    /\ sent = <<>>

RenderIdle ==
    /\ ascii_text = <<>>
    /\ rpc = "idle"
    /\ image = None
    /\ line_idx = 0
    /\ drawn = <<>>
    /\ LineIdle

(***************************************************************************)
(* Characters and strings                                                  *)
(***************************************************************************)

\* the sequences of n elements of S
RECURSIVE SeqsOfLen(_, _)
SeqsOfLen(S, n) ==
    IF n = 0 THEN {<<>>}
    ELSE {Append(s, c) : s \in SeqsOfLen(S, n - 1), c \in S}

\* str::to_lowercase, one character at a time, over the characters in use
ToLowerChar(c) ==
    CASE c = "A" -> "a"
      [] c = "B" -> "b"
      [] c = "C" -> "c"
      [] c = "D" -> "d"
      [] c = "E" -> "e"
      [] c = "F" -> "f"
      [] c = "X" -> "x"
      [] c = "U+00C9" -> "U+00E9"
      [] OTHER -> c

to_lowercase(s) == [i \in 1..Len(s) |-> ToLowerChar(s[i])]

\* the number of UTF-8 bytes of a character: str::len and str indexing count bytes
Utf8Len(c) == IF c \in {"U+00E9", "U+00C9"} THEN 2 ELSE 1

RECURSIVE ByteLen(_)
ByteLen(s) == IF s = <<>> THEN 0 ELSE Utf8Len(Head(s)) + ByteLen(Tail(s))

\* &s[a..b], walking the characters of s from byte offset `off`: the characters
\* between byte offsets a and b; an offset inside a character, or past the end,
\* panics
RECURSIVE SliceWalk(_, _, _, _, _)
SliceWalk(s, off, a, b, acc) ==
    IF off >= a /\ off = b THEN [kind |-> "Ok", str |-> acc]
    ELSE IF s = <<>> THEN [kind |-> "Panic"]
    ELSE LET nxt == off + Utf8Len(Head(s))
         IN  IF off < a
             THEN IF nxt > a THEN [kind |-> "Panic"]
                  ELSE SliceWalk(Tail(s), nxt, a, b, acc)
             ELSE IF nxt > b THEN [kind |-> "Panic"]
                  ELSE SliceWalk(Tail(s), nxt, a, b, Append(acc, Head(s)))

ByteSlice(s, a, b) == SliceWalk(s, 0, a, b, <<>>)

\* char::to_digit(radix 16); 16 stands for "not a digit"
ToDigit16(c) ==
    CASE c = "0" -> 0 [] c = "1" -> 1 [] c = "2" -> 2 [] c = "3" -> 3
      [] c = "4" -> 4 [] c = "5" -> 5 [] c = "6" -> 6 [] c = "7" -> 7
      [] c = "8" -> 8 [] c = "9" -> 9
      [] c \in {"a", "A"} -> 10 [] c \in {"b", "B"} -> 11
      [] c \in {"c", "C"} -> 12 [] c \in {"d", "D"} -> 13
      [] c \in {"e", "E"} -> 14 [] c \in {"f", "F"} -> 15
      [] OTHER -> 16

\* the digit loop of u8::from_str_radix: -1 on an invalid digit or on overflow
RECURSIVE RadixDigits(_, _, _)
RadixDigits(digits, radix, acc) ==
    IF digits = <<>> THEN acc
    ELSE LET d == ToDigit16(Head(digits))
         IN  IF d >= radix \/ acc * radix + d > 255 THEN -1
             ELSE RadixDigits(Tail(digits), radix, acc * radix + d)

\* u8::from_str_radix(src, 16): an empty string and a lone sign are errors, one
\* leading '+' is accepted, '-' is no digit of an unsigned type; -1 is Err
from_str_radix(src, radix) ==
    IF src = <<>> THEN -1
    ELSE IF Len(src) = 1 /\ Head(src) \in {"+", "-"} THEN -1
    ELSE IF Head(src) = "+" THEN RadixDigits(Tail(src), radix, 0)
    ELSE RadixDigits(src, radix, 0)

(***************************************************************************)
(* parse_hex_color                                                         *)
(***************************************************************************)

\* hex.strip_prefix('#').or_else(|| hex.strip_prefix("0x")).unwrap_or(&hex)
strip_prefix(s) ==
    IF Len(s) >= 1 /\ s[1] = "#" THEN Tail(s)
    ELSE IF Len(s) >= 2 /\ s[1] = "0" /\ s[2] = "x" THEN SubSeq(s, 3, Len(s))
    ELSE s

\* u8::from_str_radix(&hex[a..b], 16).map_err(|_| format!("Invalid hex color: {}", hex))
Channel(h, a, b) ==
    LET sl == ByteSlice(h, a, b)
    IN  IF sl.kind = "Panic" THEN [kind |-> "Panic"]
        ELSE LET v == from_str_radix(sl.str, 16)
             IN  IF v = -1
                 THEN [kind |-> "Err", msg |-> "Invalid hex color: ", hex |-> h]
                 ELSE [kind |-> "Ok", val |-> v]

\* the channels of one match arm, read left to right; the first `?` that fails
\* (or the first slice that panics) ends the call
RECURSIVE Channels(_, _, _)
Channels(h, ranges, acc) ==
    IF ranges = <<>> THEN [kind |-> "Ok", vals |-> acc]
    ELSE LET c == Channel(h, Head(ranges)[1], Head(ranges)[2])
         IN  IF c.kind # "Ok" THEN c
             ELSE Channels(h, Tail(ranges), Append(acc, c.val))

\* a slip in the expansion: the digit shifted into the high nibble only
ExpandDigitShift(d) == d * 16

\* "Double each digit: F -> FF": r * 17 on a u8 that one hex digit filled
ExpandDigit(d) == d * 17

\* the alpha of the arms that read none
DefaultAlpha == 255

parse_hex_color(input) ==
    LET h == strip_prefix(to_lowercase(input))
        n == ByteLen(h)
    IN  CASE n = 3 ->
               LET c == Channels(h, <<<<0, 1>>, <<1, 2>>, <<2, 3>>>>, <<>>)
               IN  IF c.kind # "Ok" THEN c
                   ELSE [kind |-> "Ok",
                         color |-> <<ExpandDigit(c.vals[1]), ExpandDigit(c.vals[2]),
                                     ExpandDigit(c.vals[3]), DefaultAlpha>>]
          [] n = 4 ->
               LET c == Channels(h, <<<<0, 1>>, <<1, 2>>, <<2, 3>>, <<3, 4>>>>, <<>>)
               IN  IF c.kind # "Ok" THEN c
                   ELSE [kind |-> "Ok",
                         color |-> <<ExpandDigit(c.vals[1]), ExpandDigit(c.vals[2]),
                                     ExpandDigit(c.vals[3]), ExpandDigit(c.vals[4])>>]
          [] n = 6 ->
               LET c == Channels(h, <<<<0, 2>>, <<2, 4>>, <<4, 6>>>>, <<>>)
               IN  IF c.kind # "Ok" THEN c
                   ELSE [kind |-> "Ok",
                         color |-> <<c.vals[1], c.vals[2], c.vals[3], DefaultAlpha>>]
          [] n = 8 ->
               LET c == Channels(h, <<<<0, 2>>, <<2, 4>>, <<4, 6>>, <<6, 8>>>>, <<>>)
               IN  IF c.kind # "Ok" THEN c
                   ELSE [kind |-> "Ok",
                         color |-> <<c.vals[1], c.vals[2], c.vals[3], c.vals[4]>>]
          [] OTHER -> [kind |-> "Err", msg |-> "Invalid hex color length: ", hex |-> h]

(***************************************************************************)
(* f32 arithmetic, as far as calculate_ascii_dimensions uses it.  A finite *)
(* positive f32 is m * 2^e with a 24-bit mantissa 2^23 <= m < 2^24; the    *)
(* exponent range is not modelled (no value here leaves it).               *)
(***************************************************************************)

RECURSIVE Pow2(_)
Pow2(k) == IF k = 0 THEN 1 ELSE 2 * Pow2(k - 1)

MantBits == 24

F32Zero == [cls |-> "zero"]
F32Inf == [cls |-> "inf"]
F32NaN == [cls |-> "nan"]

\* round to nearest, ties to even: q with remainder r of a division by d
RoundHalfEven(q, r, d) ==
    IF 2 * r > d \/ (2 * r = d /\ q % 2 = 1) THEN q + 1 ELSE q

\* a rounded mantissa that reached 2^24 moves up one exponent
Renormalize(m, e) ==
    IF m = Pow2(MantBits) THEN [cls |-> "finite", m |-> Pow2(MantBits - 1), e |-> e + 1]
    ELSE [cls |-> "finite", m |-> m, e |-> e]

RECURSIVE ShiftUp(_, _)
ShiftUp(m, e) ==
    IF m < Pow2(MantBits - 1) THEN ShiftUp(2 * m, e - 1)
    ELSE [cls |-> "finite", m |-> m, e |-> e]

RECURSIVE BitLength(_)
BitLength(n) == IF n = 0 THEN 0 ELSE 1 + BitLength(n \div 2)

\* `n as f32` for a u32: exact below 2^24, rounded to nearest above
U32ToF32(n) ==
    IF n = 0 THEN F32Zero
    ELSE IF n < Pow2(MantBits) THEN ShiftUp(n, 0)
    ELSE LET k == BitLength(n) - MantBits
         IN  Renormalize(RoundHalfEven(n \div Pow2(k), n % Pow2(k), Pow2(k)), k)

\* k more quotient bits of r / d, by long division (r < d)
RECURSIVE DivBits(_, _, _, _)
DivBits(r, d, k, q) ==
    IF k = 0 THEN <<q, r>>
    ELSE IF 2 * r >= d THEN DivBits(2 * r - d, d, k - 1, 2 * q + 1)
    ELSE DivBits(2 * r, d, k - 1, 2 * q)

\* the quotient of two finite positive f32, correctly rounded
F32DivFinite(a, b) ==
    LET first == IF a.m >= b.m THEN 1 ELSE 0
        k == IF a.m >= b.m THEN MantBits - 1 ELSE MantBits
        qr == DivBits(a.m - first * b.m, b.m, k, first)
    IN  Renormalize(RoundHalfEven(qr[1], qr[2], b.m), a.e - b.e - k)

\* a / b on non-negative f32 (IEEE 754: x/0 is inf, 0/0 and inf/inf are NaN)
F32Div(a, b) ==
    CASE a.cls = "nan" \/ b.cls = "nan" -> F32NaN
      [] a.cls = "inf" -> IF b.cls = "inf" THEN F32NaN ELSE F32Inf
      [] b.cls = "inf" -> F32Zero
      [] b.cls = "zero" -> IF a.cls = "zero" THEN F32NaN ELSE F32Inf
      [] a.cls = "zero" -> F32Zero
      [] OTHER -> F32DivFinite(a, b)

\* a * 2.0: exact
F32Double(a) ==
    IF a.cls = "finite" THEN [a EXCEPT !.e = a.e + 1] ELSE a

\* u32::MAX is 4294967295, past the integers of the checker: a u32 is
\* [sat |-> FALSE, val |-> n], or [sat |-> TRUE, val |-> 0] for u32::MAX
U32(n) == [sat |-> FALSE, val |-> n]
U32Max == [sat |-> TRUE, val |-> 0]

\* `a as u32`: truncates toward zero, saturates, and takes NaN to 0
F32ToU32(a) ==
    CASE a.cls = "nan" -> U32(0)
      [] a.cls = "zero" -> U32(0)
      [] a.cls = "inf" -> U32Max
      [] OTHER ->
           IF a.e >= 9 THEN U32Max
           ELSE IF a.e >= 0 THEN U32(a.m * Pow2(a.e))
           ELSE IF -a.e > MantBits THEN U32(0)
           ELSE U32(a.m \div Pow2(-a.e))

\* target_height.max(1)
U32AtLeastOne(u) == IF ~u.sat /\ u.val < 1 THEN U32(1) ELSE u

(***************************************************************************)
(* AsciiRenderer::new and calculate_ascii_dimensions                       *)
(***************************************************************************)

\* max_width.min(500)
WidthCap == 500

\* char_width: 9, char_height: 18
CharWidth == 9
CharHeight == 18

Min(a, b) == IF a <= b THEN a ELSE b

\* calculate_ascii_dimensions(&self, img_width, img_height) with
\* self.max_width_chars = target_width: a pair, never an error
calculate_ascii_dimensions(target_width, w, h) ==
    LET aspect_ratio == F32Div(U32ToF32(w), U32ToF32(h))
        target_height ==
            F32ToU32(F32Div(U32ToF32(target_width), F32Double(aspect_ratio)))
    IN  [kind |-> "Ok", columns |-> target_width,
         rows |-> U32AtLeastOne(target_height)]

\* the largest side of a source image, and the largest max_width, drawn from
\* a range; the sizes of the documented examples are drawn besides
MaxImgSide == 8
MaxColumns == 4

ImgSides == (0..MaxImgSide) \cup {100, 300, 700}
MaxWidths == (0..MaxColumns) \cup {100, 150, 500, 501}

DimInit ==
    /\ img_width \in ImgSides
    /\ img_height \in ImgSides
    /\ max_width \in MaxWidths
    /\ renderer = None
    /\ dims = None
    /\ HexIdle
    /\ RenderIdle
    /\ FlowIdle

\* AsciiRenderer::new(brightness_boost, background_color, max_width), the fields
\* the model reads
AsciiRenderer_new(boost, background, w) ==
    [kind |-> "AsciiRenderer", char_width |-> CharWidth, char_height |-> CharHeight,
     background_color |-> background, max_width_chars |-> Min(w, WidthCap),
     brightness_boost |-> boost]

\* const DEFAULT_BACKGROUND: Rgba<u8> = Rgba([20, 20, 20, 255])
DEFAULT_BACKGROUND == <<20, 20, 20, 255>>

New ==
    /\ renderer = None
    /\ renderer' = AsciiRenderer_new(1, DEFAULT_BACKGROUND, max_width)
    /\ UNCHANGED <<img_width, img_height, max_width, dims, hexVars, renderVars, lineVars,
                   flowVars>>

\* the call self.calculate_ascii_dimensions(img_width, img_height)
CalculateAsciiDimensions ==
    /\ renderer # None
    /\ dims = None
    /\ dims' = calculate_ascii_dimensions(renderer.max_width_chars, img_width,
                                          img_height)
    /\ UNCHANGED <<img_width, img_height, max_width, renderer, hexVars, renderVars,
                   lineVars, flowVars>>

DimNext == New \/ CalculateAsciiDimensions

SpecDim == DimInit /\ [][DimNext]_vars

(***************************************************************************)
(* Properties of the dimension calculation                                 *)
(***************************************************************************)

\* C4: the dimension calculation fails with an invalid-image-dimensions error
\* whenever the source image height is 0, whatever the width and max_columns; it
\* never returns a (columns, rows) pair then.
C4_ZeroHeightIsError ==
    (dims # None /\ img_height = 0) => dims.kind = "Err"

\* max(1, floor(columns / ((width / height) * 2))) in exact arithmetic
ExactRows(columns, w, h) ==
    LET rows == (columns * h) \div (2 * w)
    IN  IF rows < 1 THEN 1 ELSE rows

\* C7: for every source image with width >= 1 and height >= 1 and every
\* max_columns, the calculation returns columns = min(max_columns, 500) and
\* rows = max(1, floor(columns / ((width / height) * 2))); so a square source
\* with max_columns = 100 gives 50 rows and 300x100 with 150 gives (150, 25).
C7_GridDimensions ==
    (dims # None /\ img_width >= 1 /\ img_height >= 1)
    => /\ dims.kind = "Ok"
       /\ dims.columns = Min(max_width, 500)
       /\ dims.rows = U32(ExactRows(Min(max_width, 500), img_width, img_height))

(***************************************************************************)
(* The ANSI line parser: parse_ansi_rgb, parse_colored_line,               *)
(* count_visible_chars                                                     *)
(***************************************************************************)

ESC == "U+001B"
LF == "U+000A"

\* a reset that returns opaque black
ResetColorBlack == <<0, 0, 0, 255>>

\* Rgba([255, 255, 255, 255]), the colour a reset code returns
ResetColor == <<255, 255, 255, 255>>

\* "Default white": the colour parse_colored_line starts every line with
DefaultColor == <<255, 255, 255, 255>>

\* str::split: the pieces of s between the separators, the k-th of them from
\* after the (k-1)-th separator up to the k-th one (or to the end of s)
Split(s, sep) ==
    LET seps == {i \in 1..Len(s) : s[i] = sep}
        SepAt(k) == IF k = 0 THEN 0
                    ELSE IF k > Cardinality(seps) THEN Len(s) + 1
                    ELSE CHOOSE i \in seps : Cardinality({j \in seps : j < i}) = k - 1
    IN  [k \in 1..(Cardinality(seps) + 1) |-> SubSeq(s, SepAt(k - 1) + 1, SepAt(k) - 1)]

\* parts[i].parse::<u8>(): -1 is Err
parse_u8(s) == from_str_radix(s, 10)

\* r, g and b of one colour code, each `parse().ok()?`
RgbOf(parts) ==
    LET r == parse_u8(parts[3])
        g == parse_u8(parts[4])
        b == parse_u8(parts[5])
    IN  IF r = -1 \/ g = -1 \/ b = -1 THEN None
        ELSE [kind |-> "Some", color |-> <<r, g, b, 255>>]

\* parse_ansi_rgb(&self, code) -> Option<Rgba<u8>>
parse_ansi_rgb(c) ==
    LET parts == Split(c, ";")
    IN  IF Len(parts) >= 5 /\ parts[1] = <<"3", "8">> /\ parts[2] = <<"2">>
        THEN RgbOf(parts)
        ELSE IF Len(parts) >= 5 /\ parts[1] = <<"4", "8">> /\ parts[2] = <<"2">>
        THEN RgbOf(parts)
        ELSE IF Len(parts) = 1 /\ parts[1] = <<"0">>
        THEN [kind |-> "Some", color |-> ResetColor]
        ELSE None

\* the loop "read until 'm'": the characters before the first 'm' of s (all of s
\* when it has none), and what the iterator has left after it
ReadCode(s) ==
    LET ms == {i \in 1..Len(s) : s[i] = "m"}
    IN  IF ms = {} THEN [code |-> s, rest |-> <<>>]
        ELSE LET first == CHOOSE i \in ms : \A j \in ms : i <= j
             IN  [code |-> SubSeq(s, 1, first - 1),
                  rest |-> SubSeq(s, first + 1, Len(s))]

\* the iterator after `chars.next()` took one more character, if there was one
Advance(s) == IF s = <<>> THEN <<>> ELSE Tail(s)

\* one iteration of `while let Some(ch) = chars.next()` of parse_colored_line, on
\* the locals st = [chars, code, current_color, result]
\* ... ch is ESC and the next character is '[': the code is read and interpreted
EscapeSequence(st) ==
    LET rd == ReadCode(Tail(Tail(st.chars)))
        color == parse_ansi_rgb(rd.code)
    IN  [chars |-> rd.rest, code |-> [kind |-> "Some", str |-> rd.code],
         result |-> st.result,
         current_color |-> IF color = None THEN st.current_color ELSE color.color]

\* ... ch is ESC and `chars.next() == Some('[')` is false: the character that
\* next() returned is gone with the ESC
LoneEscape(st) == [st EXCEPT !.chars = Advance(Tail(st.chars))]

\* ... any other ch: "Regular character - use current color"
RegularChar(st) ==
    [st EXCEPT !.chars = Tail(st.chars),
               !.result = Append(st.result,
                                 [ch |-> Head(st.chars), color |-> st.current_color])]

IsEscapeSequence(s) == Len(s) >= 2 /\ s[1] = ESC /\ s[2] = "["
IsLoneEscape(s) == Len(s) >= 1 /\ s[1] = ESC /\ ~IsEscapeSequence(s)
IsRegularChar(s) == Len(s) >= 1 /\ s[1] # ESC

ParseIteration(st) ==
    CASE IsEscapeSequence(st.chars) -> EscapeSequence(st)
      [] IsLoneEscape(st.chars) -> LoneEscape(st)
      [] OTHER -> RegularChar(st)

\* the locals of parse_colored_line(line) before its loop
ParseStart(line) ==
    [chars |-> line, code |-> None, current_color |-> DefaultColor, result |-> <<>>]

RECURSIVE ParseLoop(_)
ParseLoop(st) == IF st.chars = <<>> THEN st ELSE ParseLoop(ParseIteration(st))

\* parse_colored_line(&self, line) -> Vec<(char, Rgba<u8>)>
parse_colored_line(line) == ParseLoop(ParseStart(line)).result

\* a count that takes every character of the line for a visible one
count_all_chars(line) == Len(line)

\* count_visible_chars(&self, line) -> usize
RECURSIVE count_visible_chars(_)
count_visible_chars(line) ==
    IF line = <<>> THEN 0
    ELSE IF Head(line) = ESC
    THEN IF Len(line) >= 2 /\ line[2] = "["
         THEN count_visible_chars(ReadCode(Tail(Tail(line))).rest)
         ELSE count_visible_chars(Advance(Tail(line)))
    ELSE 1 + count_visible_chars(Tail(line))

(***************************************************************************)
(* render_to_image                                                         *)
(***************************************************************************)

\* str::lines over texts whose only line break is "\n": the pieces between the
\* line feeds, without the empty piece after a final line feed
Lines(text) ==
    LET pieces == Split(text, LF)
    IN  IF pieces[Len(pieces)] = <<>> THEN SubSeq(pieces, 1, Len(pieces) - 1)
        ELSE pieces

RECURSIVE MaxOf(_, _)
MaxOf(counts, best) ==
    IF counts = <<>> THEN best
    ELSE MaxOf(Tail(counts), IF Head(counts) > best THEN Head(counts) ELSE best)

\* lines.iter().map(|l| self.count_visible_chars(l)).max().unwrap_or(0)
MaxVisibleWidth(lines) ==
    MaxOf([i \in 1..Len(lines) |-> count_visible_chars(lines[i])], 0)

\* ImageBuffer::from_pixel(width * char_width, height * char_height, ..): its size
ImageSize(r, lines) ==
    [width |-> MaxVisibleWidth(lines) * r.char_width,
     height |-> Len(lines) * r.char_height]

\* boost_brightness with a whole brightness_boost: (c as f32 * boost).min(255.0)
\* per channel, alpha as it was
boost_brightness(r, color) ==
    <<Min(color[1] * r.brightness_boost, 255), Min(color[2] * r.brightness_boost, 255),
      Min(color[3] * r.brightness_boost, 255), color[4]>>

\* the draw_text_mut calls of one line: cell col_idx of line line_idx is drawn at
\* (col_idx * char_width, line_idx * char_height) in its boosted colour
DrawCalls(r, idx, parsed) ==
    [col \in 1..Len(parsed) |->
        [x |-> (col - 1) * r.char_width, y |-> idx * r.char_height,
         ch |-> parsed[col].ch, color |-> boost_brightness(r, parsed[col].color)]]

\* the most pieces a text is put together from
MaxPieces == 4

\* what the text generator writes in the FgPaint style: visible characters, line
\* feeds, the foreground code and the reset code
CorePieces ==
    { <<"A">>, <<"B">>, <<LF>>,
      <<ESC, "[", "3", "8", ";", "2", ";", "1", "0", ";", "2", "0", ";", "3", "0", "m">>,
      <<ESC, "[", "0", "m">> }

\* what it does not write in that style: a background code, an unknown code, a
\* colour code with a sixth field, with a component past 255, with a component
\* that is no number, an ESC on its own, a code that no 'm' ends
OddPieces ==
    { <<ESC, "[", "4", "8", ";", "2", ";", "1", ";", "2", ";", "3", "m">>,
      <<ESC, "[", "9", "9", ";", "1", "m">>,
      <<ESC, "[", "3", "8", ";", "2", ";", "4", "0", ";", "5", "0", ";", "6", "0", ";",
        "7", "0", "m">>,
      <<ESC, "[", "3", "8", ";", "2", ";", "2", "5", "6", ";", "0", ";", "0", "m">>,
      <<ESC, "[", "4", "8", ";", "2", ";", "x", ";", "2", ";", "3", "m">>,
      <<ESC>>,
      <<ESC, "[", "0">> }

RECURSIVE Concat(_)
Concat(pieces) == IF pieces = <<>> THEN <<>> ELSE Head(pieces) \o Concat(Tail(pieces))

\* the renderer of the context-menu commands: brightness 1.0, at most 150 columns
DefaultBoost == 1
DefaultSize == 150

\* a text of at most MaxPieces pieces, at most one of them odd
RenderInit ==
    /\ \E n \in 0..MaxPieces :
         \/ \E ps \in SeqsOfLen(CorePieces, n) : ascii_text = Concat(ps)
         \/ \E ps \in SeqsOfLen(CorePieces, n), i \in 1..n, o \in OddPieces :
               ascii_text = Concat([ps EXCEPT ![i] = o])
    /\ rpc = "start"
    /\ image = None
    /\ line_idx = 0
    /\ drawn = <<>>
    /\ LineIdle
    /\ HexIdle
    /\ img_width = 0
    /\ img_height = 0
    /\ max_width = DefaultSize
    /\ renderer = AsciiRenderer_new(DefaultBoost, DEFAULT_BACKGROUND, DefaultSize)
    /\ dims = None
    /\ FlowIdle

\* render_to_image up to its loop: the lines, the buffer
RenderBegin ==
    /\ rpc = "start"
    /\ image' = ImageSize(renderer, Lines(ascii_text))
    /\ line_idx' = 0
    /\ rpc' = "lines"
    /\ UNCHANGED <<ascii_text, drawn, lineVars, hexVars, dimVars, flowVars>>

\* the call self.parse_colored_line(line) for the next line, up to its loop
ParseLineBegin ==
    /\ rpc = "lines"
    /\ line_idx < Len(Lines(ascii_text))
    /\ LET st == ParseStart(Lines(ascii_text)[line_idx + 1])
       IN  /\ chars' = st.chars
           /\ code' = st.code
           /\ current_color' = st.current_color
           /\ result' = st.result
    /\ rpc' = "parse"
    /\ UNCHANGED <<ascii_text, image, line_idx, drawn, hexVars, dimVars, flowVars>>

Locals == [chars |-> chars, code |-> code, current_color |-> current_color,
           result |-> result]

SetLocals(st) ==
    /\ chars' = st.chars
    /\ code' = st.code
    /\ current_color' = st.current_color
    /\ result' = st.result

\* one iteration of the loop of parse_colored_line, by what `ch` is
ParseRegularChar ==
    /\ rpc = "parse"
    /\ IsRegularChar(chars)
    /\ SetLocals(ParseIteration(Locals))
    /\ UNCHANGED <<renderVars, hexVars, dimVars, flowVars>>

ParseEscapeSequence ==
    /\ rpc = "parse"
    /\ IsEscapeSequence(chars)
    /\ SetLocals(ParseIteration(Locals))
    /\ UNCHANGED <<renderVars, hexVars, dimVars, flowVars>>

ParseLoneEscape ==
    /\ rpc = "parse"
    /\ IsLoneEscape(chars)
    /\ SetLocals(ParseIteration(Locals))
    /\ UNCHANGED <<renderVars, hexVars, dimVars, flowVars>>

\* parse_colored_line returns and the cells of the line are drawn
DrawLine ==
    /\ rpc = "parse"
    /\ chars = <<>>
    /\ drawn' = drawn \o DrawCalls(renderer, line_idx, result)
    /\ line_idx' = line_idx + 1
    /\ rpc' = "lines"
    /\ UNCHANGED <<ascii_text, image, lineVars, hexVars, dimVars, flowVars>>

\* Ok(image)
RenderEnd ==
    /\ rpc = "lines"
    /\ line_idx = Len(Lines(ascii_text))
    /\ rpc' = "done"
    /\ UNCHANGED <<ascii_text, image, line_idx, drawn, lineVars, hexVars, dimVars,
                   flowVars>>

RenderNext ==
    \/ RenderBegin
    \/ ParseLineBegin
    \/ ParseRegularChar
    \/ ParseEscapeSequence
    \/ ParseLoneEscape
    \/ DrawLine
    \/ RenderEnd

SpecParse == RenderInit /\ [][RenderNext]_vars

(***************************************************************************)
(* Properties of the line parser                                           *)
(***************************************************************************)

DecimalDigits == <<"0", "1", "2", "3", "4", "5", "6", "7", "8", "9">>
Digits == {DecimalDigits[i] : i \in 1..10}

RECURSIVE DecimalValue(_, _)
DecimalValue(s, acc) ==
    IF s = <<>> \/ acc > 255 THEN acc
    ELSE DecimalValue(Tail(s),
                      10 * acc + (CHOOSE i \in 1..10 : DecimalDigits[i] = Head(s)) - 1)

\* an integer in 0..255, written in decimal
IsColorComponent(s) ==
    /\ Len(s) >= 1
    /\ \A i \in 1..Len(s) : s[i] \in Digits
    /\ DecimalValue(s, 0) <= 255

\* the code `lead`;2;R;G;B with R, G and B in 0..255
IsRgbCode(c, lead) ==
    LET parts == Split(c, ";")
    IN  /\ Len(parts) = 5
        /\ parts[1] = lead
        /\ parts[2] = <<"2">>
        /\ \A i \in 3..5 : IsColorComponent(parts[i])

IsForegroundCode(c) == IsRgbCode(c, <<"3", "8">>)
IsBackgroundCode(c) == IsRgbCode(c, <<"4", "8">>)
IsResetCode(c) == c = <<"0">>

\* the colour R, G, B of an RGB code, opaque
RgbOfCode(c) ==
    LET parts == Split(c, ";")
    IN  <<DecimalValue(parts[3], 0), DecimalValue(parts[4], 0),
          DecimalValue(parts[5], 0), 255>>

\* the parser is about to read an escape sequence, and the code it holds
ReadsSequence == rpc = "parse" /\ IsEscapeSequence(chars)
PendingCode == ReadCode(Tail(Tail(chars))).code

\* the parser is about to emit a cell, and the cell this step emitted
EmitsCell == rpc = "parse" /\ IsRegularChar(chars)
LastCodeIs(P(_)) == code # None /\ P(code.str)

White == <<255, 255, 255, 255>>

\* C1: the colour state persists across line boundaries: the parser begins line
\* k+1 with the colour in effect at the end of line k, so a visible character
\* before any colour code of that line is emitted in it; the state is not reset
\* to the default at the start of a line.
C1_ColorPersistsAcrossLines ==
    [][(rpc = "lines" /\ rpc' = "parse" /\ line_idx >= 1)
         => current_color' = current_color]_vars

\* C2: after the parser reads 48;2;R;G;B the current foreground is what it was
\* before, and every cell emitted until the next code carries the background
\* Some(Color(R,G,B,255)).
C2_BackgroundCode ==
    [][/\ (ReadsSequence /\ IsBackgroundCode(PendingCode))
            => current_color' = current_color
       /\ (EmitsCell /\ LastCodeIs(IsBackgroundCode))
            => LET cell == result'[Len(result')]
               IN  /\ "background" \in DOMAIN cell
                   /\ cell.background = [kind |-> "Some", color |-> RgbOfCode(code.str)]
      ]_vars

\* ESC[38;2;10;20;30m A ESC[0m B
ResetExample ==
    <<ESC, "[", "3", "8", ";", "2", ";", "1", "0", ";", "2", "0", ";", "3", "0", "m", "A",
      ESC, "[", "0", "m", "B">>

\* the example's line has been parsed to exactly its two cells; a cell is a
\* character and a colour, and holds no background
ResetExampleParsed ==
    (/\ rpc = "parse"
     /\ chars = <<>>
     /\ Lines(ascii_text)[line_idx + 1] = ResetExample)
    => result = <<[ch |-> "A", color |-> <<10, 20, 30, 255>>],
                  [ch |-> "B", color |-> White]>>

\* C5: after the parser reads the reset code (one field, 0), whatever the colour
\* state was, the current foreground is opaque white and there is no background:
\* the cells emitted next are white and carry none; ESC[38;2;10;20;30m A ESC[0m B
\* parses to exactly ('A', (10,20,30,255)) then ('B', (255,255,255,255)).
C5_ResetRestoresWhite ==
    /\ [][/\ (ReadsSequence /\ IsResetCode(PendingCode)) => current_color' = White
          /\ (EmitsCell /\ LastCodeIs(IsResetCode))
               => result'[Len(result')] = [ch |-> Head(chars), color |-> White]
         ]_vars
    /\ []ResetExampleParsed

\* the example has been parsed: 'A' in the colour set, then 'B' in white
C5_Witness ==
    /\ rpc = "parse"
    /\ chars = <<>>
    /\ ascii_text = ResetExample
    /\ code = [kind |-> "Some", str |-> <<"0">>]
    /\ current_color = White
    /\ result = <<[ch |-> "A", color |-> <<10, 20, 30, 255>>],
                  [ch |-> "B", color |-> White]>>

IsKnownCode(c) == IsForegroundCode(c) \/ IsBackgroundCode(c) \/ IsResetCode(c)

\* C6: unknown codes are inert: for every escape sequence whose code is not
\* 38;2;R;G;B, 48;2;R;G;B (components in 0..255) or the single field 0, wrong
\* field counts and bad components included, the colour state after it is the
\* one before it, no error is raised, no cell is emitted for it and the
\* characters after its 'm' are still there to be emitted.
C6_UnknownCodesInert ==
    [][(ReadsSequence /\ ~IsKnownCode(PendingCode))
         => /\ current_color' = current_color
            /\ result' = result
            /\ rpc' = "parse"
            /\ chars' = ReadCode(Tail(Tail(chars))).rest]_vars

\* an ESC followed by a character other than '['
EscapeThenOther(s) == Len(s) >= 2 /\ s[1] = ESC /\ s[2] # "["

\* the strings left after dropping the first i characters of a line of the text
LineSuffixes ==
    UNION {{SubSeq(Lines(ascii_text)[k], i, Len(Lines(ascii_text)[k]))
              : i \in 1..Len(Lines(ascii_text)[k])}
           : k \in 1..Len(Lines(ascii_text))}

\* C10: when ESC is followed by a character other than '[', the parser emits no
\* cell for the ESC and discards only the ESC: the character after it is
\* processed like any other, when cells are parsed and when visible characters
\* are counted.
C10_LoneEscapeDiscardedAlone ==
    /\ [][(rpc = "parse" /\ EscapeThenOther(chars))
            => /\ chars' = Tail(chars)
               /\ result' = result
               /\ current_color' = current_color]_vars
    /\ [](image # None
            => \A s \in LineSuffixes :
                  EscapeThenOther(s)
                    => count_visible_chars(s) = count_visible_chars(Tail(s)))

(***************************************************************************)
(* The size of the buffer                                                  *)
(***************************************************************************)

\* the largest of the counts, 0 when there is none
Widest(counts) ==
    IF counts = <<>> THEN 0
    ELSE CHOOSE m \in {counts[i] : i \in 1..Len(counts)} :
            \A i \in 1..Len(counts) : counts[i] <= m

\* the number of cells the parser emits for each line of the text
CellCounts == [i \in 1..Len(Lines(ascii_text)) |-> Len(parse_colored_line(Lines(ascii_text)[i]))]

\* the parser has come to the end of the line it was called with
LineParsed == rpc = "parse" /\ chars = <<>>

\* C11: once render_to_image has made its buffer, the buffer is (the largest
\* number of cells the parser emits for a line) * char_width wide and (number of
\* lines) * char_height high; when the parser has finished a line, the cells it
\* emitted are as many as count_visible_chars counted for that line; the origin
\* of every cell drawn lies inside the buffer; and a text of zero lines gets a
\* buffer of zero area, no cell is parsed or drawn for it and the call returns
C11_BufferSize ==
    /\ image # None =>
          /\ image.width = Widest(CellCounts) * renderer.char_width
          /\ image.height = Len(Lines(ascii_text)) * renderer.char_height
          /\ \A k \in 1..Len(drawn) :
                /\ 0 <= drawn[k].x /\ drawn[k].x < image.width
                /\ 0 <= drawn[k].y /\ drawn[k].y < image.height
    /\ LineParsed =>
          Len(result) = count_visible_chars(Lines(ascii_text)[line_idx + 1])
    /\ (image # None /\ Lines(ascii_text) = <<>>) =>
          /\ image.width * image.height = 0
          /\ drawn = <<>>
          /\ rpc \in {"lines", "done"}

\* a text of two lines with an escape sequence in it has been rendered: the
\* wider line has two cells, the second of them drawn at x = char_width
C11_Witness ==
    /\ rpc = "done"
    /\ \E i \in 1..Len(ascii_text) : ascii_text[i] = ESC
    /\ Len(Lines(ascii_text)) = 2
    /\ image = [width |-> 2 * CharWidth, height |-> 2 * CharHeight]
    /\ \E k \in 1..Len(drawn) : drawn[k].x = CharWidth

(***************************************************************************)
(* The inputs of the hex colour parser                                     *)
(***************************************************************************)

\* the longest string of digits handed to the parser
MaxHexLen == 8

HexDigitChars == {"F", "0", "a"}
FewDigitChars == {"F", "0"}
OddChars == {"+", "g", "U+00E9"}
HexPrefixes == {<<>>, <<"#">>, <<"0", "x">>, <<"0", "X">>}

\* an optional prefix, then a string of hex digits or one with one character
\* replaced by an odd one
HexInit ==
    /\ \E p \in HexPrefixes, n \in 0..MaxHexLen :
         \/ \E s \in SeqsOfLen(HexDigitChars, n) : hex = p \o s
         \/ \E s \in SeqsOfLen(FewDigitChars, n), i \in 1..n, o \in OddChars :
               hex = p \o [s EXCEPT ![i] = o]
    /\ hex_result = None
    /\ DimIdle
    /\ RenderIdle
    /\ FlowIdle

\* the call parse_hex_color(hex)
ParseHexColor ==
    /\ hex_result = None
    /\ hex_result' = parse_hex_color(hex)
    /\ UNCHANGED <<hex, dimVars, renderVars, lineVars, flowVars>>

SpecHex == HexInit /\ [][ParseHexColor]_vars

(***************************************************************************)
(* Properties of parse_hex_color                                           *)
(***************************************************************************)

\* the input after case normalisation and stripping one optional '#' or '0x'
Remainder(s) == strip_prefix(to_lowercase(s))

LowerHexDigits ==
    <<"0", "1", "2", "3", "4", "5", "6", "7", "8", "9", "a", "b", "c", "d", "e", "f">>

IsHexDigit(c) == \E i \in 1..16 : LowerHexDigits[i] = c

DigitValue(c) == (CHOOSE i \in 1..16 : LowerHexDigits[i] = c) - 1

AllHexDigits(s) == \A i \in 1..Len(s) : IsHexDigit(s[i])

ValidLengths == {3, 4, 6, 8}

\* C3: parse_hex_color returns an error, never a colour and never a crash, for
\* every input whose remainder has a length outside {3,4,6,8} and for every
\* input whose remainder holds a character that is no hex digit.
C3_InvalidInputIsError ==
    (/\ hex_result # None
     /\ \/ Len(Remainder(hex)) \notin ValidLengths
        \/ ~AllHexDigits(Remainder(hex)))
    => hex_result.kind = "Err"

\* the byte a pair of hex digits stands for
PairValue(hi, lo) == 16 * DigitValue(hi) + DigitValue(lo)

\* the colour the claim gives a string r of 3, 4, 6 or 8 hex digits
ExpectedColor(r) ==
    CASE Len(r) = 3 -> <<DigitValue(r[1]) * 17, DigitValue(r[2]) * 17,
                         DigitValue(r[3]) * 17, 255>>
      [] Len(r) = 4 -> <<DigitValue(r[1]) * 17, DigitValue(r[2]) * 17,
                         DigitValue(r[3]) * 17, DigitValue(r[4]) * 17>>
      [] Len(r) = 6 -> <<PairValue(r[1], r[2]), PairValue(r[3], r[4]),
                         PairValue(r[5], r[6]), 255>>
      [] Len(r) = 8 -> <<PairValue(r[1], r[2]), PairValue(r[3], r[4]),
                         PairValue(r[5], r[6]), PairValue(r[7], r[8])>>

\* every digit written twice: "f0a" -> "ff00aa"
Doubled(r) == [i \in 1..(2 * Len(r)) |-> r[(i + 1) \div 2]]

\* C8: for every string that, after case normalisation and prefix stripping, is
\* exactly 3, 4, 6 or 8 hex digits, parse_hex_color succeeds with each short digit
\* d expanded to d*17 (alpha 255 for 3 digits), the byte pairs for 6 digits with
\* alpha 255 and the four byte pairs for 8 digits; a short form parses to the
\* colour of the form with every digit doubled.
C8_ValidHexParses ==
    (/\ hex_result # None
     /\ Len(Remainder(hex)) \in ValidLengths
     /\ AllHexDigits(Remainder(hex)))
    => /\ hex_result = [kind |-> "Ok", color |-> ExpectedColor(Remainder(hex))]
       /\ Len(Remainder(hex)) \in {3, 4}
            => parse_hex_color(Doubled(Remainder(hex))) = hex_result

\* "#F0a" has been parsed to the colour of "ff00aa"
C8_Witness ==
    /\ hex = <<"#", "F", "0", "a">>
    /\ hex_result = [kind |-> "Ok", color |-> <<255, 0, 170, 255>>]
    /\ parse_hex_color(<<"F", "F", "0", "0", "a", "a">>) = hex_result

(***************************************************************************)
(* A conversion request: the three commands, _image_to_ascii and on_error  *)
(***************************************************************************)

Commands == {"image_to_ascii", "attachment_to_ascii", "avatar_to_ascii"}

\* the calls a command makes, in the order of its code; `download` stands for
\* getting the image bytes (attachment.download, or the avatar's HTTP request),
\* `make_ascii` for the AsciiBuilder chain of process_image
CallOrder(c) ==
    (IF c = "image_to_ascii" THEN <<"parse_hex_color">> ELSE <<>>)
    \o <<"download", "defer", "new", "load_from_memory", "calculate_ascii_dimensions",
         "make_ascii", "render_to_image", "write_to", "send">>

\* the call after the ones that returned
NextCall == CallOrder(cmd)[Len(calls) + 1]

\* the `?` of a call that failed: the command returns the error of that call
ReturnsErr(at) ==
    /\ outcome' = [kind |-> "Err", at |-> at]
    /\ fpc' = "returned"
    /\ UNCHANGED calls

\* a call that returned without an error
Returned(at) ==
    /\ calls' = Append(calls, at)
    /\ fpc' = IF Len(calls) + 1 = Len(CallOrder(cmd)) THEN "returned"
              ELSE CallOrder(cmd)[Len(calls) + 2]
    /\ outcome' = IF Len(calls) + 1 = Len(CallOrder(cmd)) THEN [kind |-> "Ok"]
                  ELSE outcome

\* the background_color argument: the default "#141414", a short form, no colour
Backgrounds ==
    { <<"#", "1", "4", "1", "4", "1", "4">>, <<"F", "0", "a">>, <<"r", "e", "d">> }

\* the max_size argument
Sizes == {100, 150, 600}

\* (100 + brightness_boost) as f32 / 100.0 for the boosts 0 and 100
Boosts == {1, 2}

\* the sizes of the images sent in
ImageSizes == {<<300, 100>>, <<100, 100>>, <<1, 7>>}

\* what the text generator may answer
GeneratedTexts ==
    { <<>>, <<"A">>, ResetExample,
      <<ESC, "[", "3", "8", ";", "2", ";", "1", "0", ";", "2", "0", ";", "3", "0", "m", "A",
        LF, "B">> }

FlowInit ==
    /\ cmd \in Commands
    /\ IF cmd = "image_to_ascii"
       THEN /\ hex \in Backgrounds
            /\ max_width \in Sizes
            /\ brightness_boost \in Boosts
       ELSE /\ hex = <<>>
            /\ max_width = DefaultSize
            /\ brightness_boost = DefaultBoost
    /\ \E size \in ImageSizes :
          /\ img_width = size[1]
          /\ img_height = size[2]
    /\ fpc = CallOrder(cmd)[1]
    /\ calls = <<>>
    /\ outcome = None
    /\ sent = <<>>
    /\ hex_result = None
    /\ renderer = None
    /\ dims = None
    /\ RenderIdle

\* image_to_ascii: parse_hex_color(background_color.as_deref().unwrap_or("#141414"))?
EntryParseBackground ==
    /\ fpc = "parse_hex_color"
    /\ hex_result' = parse_hex_color(hex)
    /\ IF hex_result'.kind = "Ok" THEN Returned("parse_hex_color")
       ELSE ReturnsErr("parse_hex_color")
    /\ UNCHANGED <<hex, dimVars, renderVars, lineVars, cmd, brightness_boost, sent>>

\* a call whose outcome the model leaves open: it returns, or it fails
Fallible(at) ==
    /\ fpc = at
    /\ \/ Returned(at)
       \/ ReturnsErr(at)

\* attachment.download().await?, or the request for the avatar
EntryDownload ==
    /\ Fallible("download")
    /\ UNCHANGED <<hexVars, dimVars, renderVars, lineVars, cmd, brightness_boost, sent>>

\* ctx.defer().await?
CtxDefer ==
    /\ Fallible("defer")
    /\ UNCHANGED <<hexVars, dimVars, renderVars, lineVars, cmd, brightness_boost, sent>>

\* AsciiRenderer::new(brightness_boost, background_color, size)?: the font may
\* fail to parse
RendererNew ==
    /\ fpc = "new"
    /\ \/ /\ Returned("new")
          /\ renderer' = AsciiRenderer_new(
                 brightness_boost,
                 IF cmd = "image_to_ascii" THEN hex_result.color ELSE DEFAULT_BACKGROUND,
                 max_width)
       \/ /\ ReturnsErr("new")
          /\ UNCHANGED renderer
    /\ UNCHANGED <<hexVars, img_width, img_height, max_width, dims, renderVars, lineVars,
                   cmd, brightness_boost, sent>>

\* process_image: image::load_from_memory(image_bytes)?
LoadFromMemory ==
    /\ Fallible("load_from_memory")
    /\ UNCHANGED <<hexVars, dimVars, renderVars, lineVars, cmd, brightness_boost, sent>>

\* process_image: self.calculate_ascii_dimensions(img_width, img_height)
ComputeDimensions ==
    /\ fpc = "calculate_ascii_dimensions"
    /\ dims' = calculate_ascii_dimensions(renderer.max_width_chars, img_width,
                                          img_height)
    /\ Returned("calculate_ascii_dimensions")
    /\ UNCHANGED <<hexVars, img_width, img_height, max_width, renderer, renderVars,
                   lineVars, cmd, brightness_boost, sent>>

\* process_image: AsciiBuilder::new(cursor)? ... .charset(charset)?.make_ascii()?
MakeAscii ==
    /\ fpc = "make_ascii"
    /\ \/ /\ Returned("make_ascii")
          /\ ascii_text' \in GeneratedTexts
       \/ /\ ReturnsErr("make_ascii")
          /\ UNCHANGED ascii_text
    /\ UNCHANGED <<hexVars, dimVars, rpc, image, line_idx, drawn, lineVars, cmd,
                   brightness_boost, sent>>

\* the draw_text_mut calls of lines idx+1.. of the text
RECURSIVE AllDrawCalls(_, _, _)
AllDrawCalls(r, lines, idx) ==
    IF idx >= Len(lines) THEN <<>>
    ELSE DrawCalls(r, idx, parse_colored_line(lines[idx + 1]))
         \o AllDrawCalls(r, lines, idx + 1)

\* renderer.render_to_image(&ascii_art)?: the lines sized, parsed and drawn; it
\* has no error to return
RenderToImage ==
    /\ fpc = "render_to_image"
    /\ image' = ImageSize(renderer, Lines(ascii_text))
    /\ drawn' = AllDrawCalls(renderer, Lines(ascii_text), 0)
    /\ Returned("render_to_image")
    /\ UNCHANGED <<hexVars, dimVars, ascii_text, rpc, line_idx, lineVars, cmd,
                   brightness_boost, sent>>

\* an encoding error dropped instead of returned
WriteToUnchecked ==
    /\ fpc = "write_to"
    /\ \/ Returned("write_to")
       \/ /\ fpc' = "send"
          /\ UNCHANGED <<calls, outcome>>
    /\ UNCHANGED <<hexVars, dimVars, renderVars, lineVars, cmd, brightness_boost, sent>>

\* output_image.write_to(.., ImageFormat::Png)?
WriteTo ==
    /\ Fallible("write_to")
    /\ UNCHANGED <<hexVars, dimVars, renderVars, lineVars, cmd, brightness_boost, sent>>

\* ctx.send(CreateReply::default().attachment(files)).await?; Ok(())
CtxSend ==
    /\ fpc = "send"
    /\ \/ /\ Returned("send")
          /\ sent' = Append(sent, [kind |-> "attachment", name |-> "ascii.png",
                                   width |-> image.width, height |-> image.height])
       \/ /\ ReturnsErr("send")
          /\ UNCHANGED sent
    /\ UNCHANGED <<hexVars, dimVars, renderVars, lineVars, cmd, brightness_boost>>

\* on_error, FrameworkError::Command: the error is sent as an embed; a failure
\* to send it is dropped (`.ok()`)
OnError ==
    /\ fpc = "returned"
    /\ outcome.kind = "Err"
    /\ \/ sent' = Append(sent, [kind |-> "embed", cmd |-> cmd, error |-> outcome.at])
       \/ UNCHANGED sent
    /\ fpc' = "handled"
    /\ UNCHANGED <<hexVars, dimVars, renderVars, lineVars, cmd, brightness_boost, calls,
                   outcome>>

FlowNext ==
    \/ EntryParseBackground
    \/ EntryDownload
    \/ CtxDefer
    \/ RendererNew
    \/ LoadFromMemory
    \/ ComputeDimensions
    \/ MakeAscii
    \/ RenderToImage
    \/ WriteTo
    \/ CtxSend
    \/ OnError

SpecFlow == FlowInit /\ [][FlowNext]_vars

(***************************************************************************)
(* Properties of a conversion request                                      *)
(***************************************************************************)

\* configure, compute dimensions, generate text, parse and rasterize (both are
\* render_to_image), encode, deliver
StepOrder ==
    <<"new", "calculate_ascii_dimensions", "make_ascii", "render_to_image", "write_to",
      "send">>

IsStep(c) == \E i \in 1..Len(StepOrder) : StepOrder[i] = c

\* the steps that have run to their end
StepsDone == SelectSeq(calls, IsStep)

IsPrefix(a, b) == Len(a) <= Len(b) /\ SubSeq(b, 1, Len(a)) = a

ImageSent == \E i \in 1..Len(sent) : sent[i].kind = "attachment"

\* the steps run in their order; an image is sent only after every step has
\* succeeded; a failure is the command's error, with no image sent, and the error
\* shown to the user is that one
RequestState ==
    /\ IsPrefix(StepsDone, StepOrder)
    /\ ImageSent => (StepsDone = StepOrder /\ outcome = [kind |-> "Ok"])
    /\ outcome.kind = "Err"
         => /\ ~ImageSent
            /\ outcome.at = NextCall
    /\ \A i \in 1..Len(sent) :
          sent[i].kind = "embed" => (outcome.kind = "Err" /\ sent[i].error = outcome.at)

====
